---- MODULE Spec2Model ----
(***************************************************************************)
(* Driver for one HT16K33 LED controller multiplexing two 8-digit,         *)
(* 7-segment displays through a 16x8 display RAM (package ht16k33).        *)
(*                                                                         *)
(* The device is the record d (the Device struct together with the         *)
(* transactions its bus has received).  Every method is an operator from   *)
(* device to device, translated statement by statement; an action is a     *)
(* caller invoking one method.                                             *)
(***************************************************************************)
EXTENDS Integers, Sequences, FiniteSets, TLC

VARIABLES
    d,        \* the Device: bus, Address, buffer, currentBrightness, fade fields
    now,      \* the wall clock read by time.Now()
    calls,    \* the method calls made so far, with their arguments
    before,   \* the Device as it was when the last of them was made
    opsLeft   \* calls the caller still makes

vars == <<d, now, calls, before, opsLeft>>

----------------------------------------------------------------------------
(* Bounds of the exploration.                                              *)

\* Calls in a sequence started on a freshly created device.
MaxOps == 3

\* Bytes of free text that follow the opening of a string given to WriteString.
MaxLen == 2

\* Units of time the clock is followed past the last transition of a fade.
MaxWait == 1

----------------------------------------------------------------------------
(* Constants of the package.                                               *)

ht16k33TurnOnOscillator == 33     \* 0x21
ht16k33TurnOnDisplay == 129       \* 0x81
ht16k33SetBrightness == 224       \* 0xE0

MaxDigitsPerDisplay == 8
NumDisplays == 2

\* len(d.buffer): buffer [16]byte
BufferLen == 16

fadeStateIdle == 0
fadeStateOut == 1
fadeStateIn == 2

----------------------------------------------------------------------------
(* Byte arithmetic (Go's uint8 operators).                                 *)

Byte == 0..255

\* (x >> i) & 1
Bit(x, i) == (x \div (2 ^ i)) % 2

\* byte(x << n) for n >= 0: bits shifted past bit 7 are lost.
Shl8(x, n) == (x * (2 ^ n)) % 256

\* Mutant: the mask is applied without the inversion (1 << p where
\* ^(1 << p) was meant), so only bit p survives.
ClearBitMaskNotInverted(x, p) == Bit(x, p) * Shl8(1, p)

\* Mutant: the mask is never applied, so nothing is cleared.
ClearBitNever(x, p) == x

\* Mutant: ^= where &= was meant: bit p is flipped, not cleared.
ClearBitFlips(x, p) == IF p >= 8 THEN x ELSE x + (1 - 2 * Bit(x, p)) * (2 ^ p)

\* x & ^byte(1 << p), for p >= 0: bit p of x cleared; byte(1 << p) is 0 for p >= 8.
ClearBit(x, p) == x - Bit(x, p) * (2 ^ p)

\* Mutant: the bits of a row are taken most significant first (0x80 >> p).
SetBitFromTop(x, p) == IF p >= 8 THEN x ELSE x + (1 - Bit(x, 7 - p)) * (2 ^ (7 - p))

\* x | byte(1 << p), for p >= 0: bit p of x set; byte(1 << p) is 0 for p >= 8.
SetBit(x, p) == IF p >= 8 THEN x ELSE x + (1 - Bit(x, p)) * (2 ^ p)

\* x | y
Or8(x, y) ==
    LET b(i) == IF Bit(x, i) = 1 \/ Bit(y, i) = 1 THEN 1 ELSE 0
    IN  b(0) + 2 * b(1) + 4 * b(2) + 8 * b(3)
        + 16 * b(4) + 32 * b(5) + 64 * b(6) + 128 * b(7)

\* s[1] | s[2] | ... | s[Len(s)]
RECURSIVE OrAll(_)
OrAll(s) == IF s = <<>> THEN 0 ELSE Or8(Head(s), OrAll(Tail(s)))

----------------------------------------------------------------------------
(* The 7-segment font.  Runes are Unicode code points.                     *)

segA == Shl8(1, 0)
segB == Shl8(1, 1)
segC == Shl8(1, 2)
segD == Shl8(1, 3)
segE == Shl8(1, 4)
segF == Shl8(1, 5)
segG == Shl8(1, 6)

\* '.', the rune WriteString looks ahead for
DotRune == 46

\* ' ', the key of the blank pattern
SpaceRune == 32

font ==
       (48 :> OrAll(<<segA, segB, segC, segD, segE, segF>>))           \* '0'
    @@ (49 :> OrAll(<<segB, segC>>))                                   \* '1'
    @@ (50 :> OrAll(<<segA, segB, segG, segE, segD>>))                 \* '2'
    @@ (51 :> OrAll(<<segA, segB, segG, segC, segD>>))                 \* '3'
    @@ (52 :> OrAll(<<segF, segG, segB, segC>>))                       \* '4'
    @@ (53 :> OrAll(<<segA, segF, segG, segC, segD>>))                 \* '5'
    @@ (54 :> OrAll(<<segA, segF, segE, segD, segC, segG>>))           \* '6'
    @@ (55 :> OrAll(<<segA, segB, segC>>))                             \* '7'
    @@ (56 :> OrAll(<<segA, segB, segC, segD, segE, segF, segG>>))     \* '8'
    @@ (57 :> OrAll(<<segA, segB, segC, segD, segF, segG>>))           \* '9'
    @@ (65 :> OrAll(<<segA, segB, segC, segE, segF, segG>>))           \* 'A'
    @@ (66 :> OrAll(<<segF, segE, segD, segC, segG>>))                 \* 'B'
    @@ (67 :> OrAll(<<segA, segF, segE, segD>>))                       \* 'C'
    @@ (68 :> OrAll(<<segB, segC, segD, segE, segG>>))                 \* 'D'
    @@ (69 :> OrAll(<<segA, segF, segG, segE, segD>>))                 \* 'E'
    @@ (70 :> OrAll(<<segA, segF, segG, segE>>))                       \* 'F'
    @@ (71 :> OrAll(<<segA, segF, segE, segD, segC>>))                 \* 'G'
    @@ (72 :> OrAll(<<segF, segE, segG, segB, segC>>))                 \* 'H'
    @@ (73 :> OrAll(<<segB, segC>>))                                   \* 'I'
    @@ (74 :> OrAll(<<segB, segC, segD, segE>>))                       \* 'J'
    @@ (76 :> OrAll(<<segF, segE, segD>>))                             \* 'L'
    @@ (79 :> OrAll(<<segA, segB, segC, segD, segE, segF>>))           \* 'O'
    @@ (80 :> OrAll(<<segA, segB, segG, segF, segE>>))                 \* 'P'
    @@ (81 :> OrAll(<<segA, segB, segC, segF, segG>>))                 \* 'Q'
    @@ (82 :> OrAll(<<segE, segG>>))                                   \* 'R'
    @@ (83 :> OrAll(<<segA, segF, segG, segC, segD>>))                 \* 'S'
    @@ (85 :> OrAll(<<segB, segC, segD, segE, segF>>))                 \* 'U'
    @@ (89 :> OrAll(<<segF, segG, segB, segC, segD>>))                 \* 'Y'
    @@ (32 :> 0)                                                       \* ' '
    @@ (45 :> segG)                                                    \* '-'
    @@ (95 :> segD)                                                    \* '_'
    @@ (39 :> segB)                                                    \* '\''
    @@ (34 :> OrAll(<<segB, segF>>))                                   \* '"'
    @@ (61 :> OrAll(<<segD, segG>>))                                   \* '='
    @@ (63 :> OrAll(<<segA, segB, segG, segE>>))                       \* '?'

\* _, ok := font[char]
InFont(char) == char \in DOMAIN font

----------------------------------------------------------------------------
(* []rune(s): a Go string is a sequence of bytes, decoded as UTF-8; every  *)
(* byte that starts no valid encoding becomes one U+FFFD.                  *)

RuneError == 65533

\* For a first byte b: the number of bytes of the encoding it starts and the
\* range the second byte must lie in (size 1 with an empty range: invalid).
utf8First(b) ==
    IF b < 128 THEN [size |-> 1, lo |-> 0, hi |-> 0]
    ELSE IF b >= 194 /\ b <= 223 THEN [size |-> 2, lo |-> 128, hi |-> 191]
    ELSE IF b = 224 THEN [size |-> 3, lo |-> 160, hi |-> 191]
    ELSE IF b = 237 THEN [size |-> 3, lo |-> 128, hi |-> 159]
    ELSE IF b >= 225 /\ b <= 239 THEN [size |-> 3, lo |-> 128, hi |-> 191]
    ELSE IF b = 240 THEN [size |-> 4, lo |-> 144, hi |-> 191]
    ELSE IF b >= 241 /\ b <= 243 THEN [size |-> 4, lo |-> 128, hi |-> 191]
    ELSE IF b = 244 THEN [size |-> 4, lo |-> 128, hi |-> 143]
    ELSE [size |-> 1, lo |-> 1, hi |-> 0]

\* The rune encoded at byte i of s and its width in bytes.
DecodeRune(s, i) ==
    LET f == utf8First(s[i])
        cont(k) == s[i + k] >= 128 /\ s[i + k] <= 191
        wellFormed ==
            /\ i + f.size - 1 <= Len(s)
            /\ s[i + 1] >= f.lo /\ s[i + 1] <= f.hi
            /\ \A k \in 2..(f.size - 1) : cont(k)
        tail(k) == s[i + k] - 128
    IN  IF s[i] < 128 THEN [rune |-> s[i], size |-> 1]
        ELSE IF f.size = 1 \/ ~wellFormed THEN [rune |-> RuneError, size |-> 1]
        ELSE IF f.size = 2
            THEN [rune |-> (s[i] - 192) * 64 + tail(1), size |-> 2]
        ELSE IF f.size = 3
            THEN [rune |-> (s[i] - 224) * 4096 + tail(1) * 64 + tail(2), size |-> 3]
        ELSE [rune |-> (s[i] - 240) * 262144 + tail(1) * 4096 + tail(2) * 64 + tail(3),
              size |-> 4]

RECURSIVE RunesFrom(_, _)
RunesFrom(s, i) ==
    IF i > Len(s) THEN <<>>
    ELSE LET r == DecodeRune(s, i)
         IN  <<r.rune>> \o RunesFrom(s, i + r.size)

\* runes := []rune(s)
Runes(s) == RunesFrom(s, 1)

----------------------------------------------------------------------------
(* The Device.                                                             *)

\* Go's integer division and remainder truncate toward zero.
GoDiv(a, b) == IF a >= 0 THEN a \div b ELSE -((-a) \div b)
GoMod(a, b) == a - b * GoDiv(a, b)

Rows == 0..(BufferLen - 1)

\* The value of a [16]byte that was never written.
ZeroBuffer == [r \in Rows |-> 0]

\* New(bus, address): the bus has received nothing yet and its writes succeed.
New(address) ==
    [bus               |-> <<>>,
     busDown           |-> FALSE,
     Address           |-> address,
     buffer            |-> ZeroBuffer,
     currentBrightness |-> 15,
     fadeState         |-> fadeStateIdle,
     fadeStep          |-> 0,
     lastUpdateTime    |-> 0,
     fadeDelay         |-> 0,
     panicked          |-> FALSE]

\* A run-time panic (index out of range, negative shift count) unwinds the call.
Panic(dev) == [dev EXCEPT !.panicked = TRUE]

\* d.bus.Tx(uint16(d.Address), w, nil): the bus records the write and whether
\* it answered with an error; every caller in the package is a statement that
\* discards that answer.
Tx(dev, w) ==
    [dev EXCEPT !.bus = Append(@, [addr |-> dev.Address, w |-> w,
                                   err |-> dev.busDown])]

\* Mutant: the bounds check is off by one (> where >= was meant).
setPatternOffByOne(dev, display, position, pattern, dot) ==
    IF \/ display < 0 \/ display > NumDisplays
       \/ position < 0 \/ position > MaxDigitsPerDisplay
    THEN dev
    ELSE LET rowOffset == display * MaxDigitsPerDisplay
             inBlock(r) == r >= rowOffset /\ r < rowOffset + MaxDigitsPerDisplay
             cleared(r) ==                                   \* &= mask
                 IF inBlock(r) THEN ClearBit(dev.buffer[r], position)
                 ELSE dev.buffer[r]
             withSegs(r) ==
                 IF r >= rowOffset /\ r < rowOffset + 7
                    /\ Bit(pattern, r - rowOffset) = 1
                 THEN SetBit(cleared(r), position)
                 ELSE cleared(r)
             withDot(r) ==
                 IF dot /\ r = rowOffset + 7
                 THEN SetBit(withSegs(r), position)
                 ELSE withSegs(r)
         IN  IF position < 0 THEN Panic(dev)                 \* 1 << position
             ELSE IF rowOffset < 0 \/ rowOffset + 7 >= BufferLen
                 THEN Panic(dev)                             \* d.buffer[rowOffset+i]
             ELSE [dev EXCEPT !.buffer = [r \in Rows |-> withDot(r)]]

\* setPattern(display, position, pattern, dot)
setPattern(dev, display, position, pattern, dot) ==
    IF \/ display < 0 \/ display >= NumDisplays
       \/ position < 0 \/ position >= MaxDigitsPerDisplay
    THEN dev
    ELSE LET rowOffset == display * MaxDigitsPerDisplay
             inBlock(r) == r >= rowOffset /\ r < rowOffset + MaxDigitsPerDisplay
             cleared(r) ==                                   \* &= mask
                 IF inBlock(r) THEN ClearBit(dev.buffer[r], position)
                 ELSE dev.buffer[r]
             withSegs(r) ==
                 IF r >= rowOffset /\ r < rowOffset + 7
                    /\ Bit(pattern, r - rowOffset) = 1
                 THEN SetBit(cleared(r), position)
                 ELSE cleared(r)
             withDot(r) ==
                 IF dot /\ r = rowOffset + 7
                 THEN SetBit(withSegs(r), position)
                 ELSE withSegs(r)
         IN  IF position < 0 THEN Panic(dev)                 \* 1 << position
             ELSE IF rowOffset < 0 \/ rowOffset + 7 >= BufferLen
                 THEN Panic(dev)                             \* d.buffer[rowOffset+i]
             ELSE [dev EXCEPT !.buffer = [r \in Rows |-> withDot(r)]]

\* SetDigitOnDisplay(display, position, char, dot)
SetDigitOnDisplay(dev, display, position, char, dot) ==
    LET pattern == IF InFont(char) THEN font[char] ELSE font[SpaceRune]
    IN  setPattern(dev, display, position, pattern, dot)

\* The font of the variant of the driver whose digit methods take a number
\* (a byte) instead of a rune: the same runes, their patterns written as
\* binary literals.
fontLiterals ==
       (48 :> 63)
    @@ (49 :> 6)
    @@ (50 :> 91)
    @@ (51 :> 79)
    @@ (52 :> 102)
    @@ (53 :> 109)
    @@ (54 :> 125)
    @@ (55 :> 7)
    @@ (56 :> 127)
    @@ (57 :> 111)
    @@ (65 :> 119)
    @@ (66 :> 124)
    @@ (67 :> 57)
    @@ (68 :> 94)
    @@ (69 :> 121)
    @@ (70 :> 113)
    @@ (71 :> 61)
    @@ (72 :> 118)
    @@ (73 :> 6)
    @@ (74 :> 30)
    @@ (76 :> 56)
    @@ (79 :> 63)
    @@ (80 :> 115)
    @@ (81 :> 103)
    @@ (82 :> 80)
    @@ (83 :> 109)
    @@ (85 :> 62)
    @@ (89 :> 110)
    @@ (32 :> 0)
    @@ (45 :> 64)
    @@ (95 :> 8)
    @@ (39 :> 2)
    @@ (34 :> 34)
    @@ (61 :> 72)
    @@ (63 :> 83)

\* SetDigitOnDisplay(display, position, num, dot) of that variant: the rune is
\* '0' + num, computed in a byte, and the pattern is 0 when the font lacks it.
SetDigitOnDisplayNum(dev, display, position, num, dot) ==
    IF \/ display < 0 \/ display >= NumDisplays
       \/ position < 0 \/ position >= MaxDigitsPerDisplay
    THEN dev
    ELSE LET char == (48 + num) % 256
             pattern == IF char \in DOMAIN fontLiterals
                        THEN fontLiterals[char] ELSE 0
             rowOffset == display * MaxDigitsPerDisplay
             inBlock(r) == r >= rowOffset /\ r < rowOffset + MaxDigitsPerDisplay
             cleared(r) ==
                 IF inBlock(r) THEN ClearBit(dev.buffer[r], position)
                 ELSE dev.buffer[r]
             withSegs(r) ==
                 IF r >= rowOffset /\ r < rowOffset + 7
                    /\ Bit(pattern, r - rowOffset) = 1
                 THEN SetBit(cleared(r), position)
                 ELSE cleared(r)
             withDot(r) ==
                 IF dot /\ r = rowOffset + 7
                 THEN SetBit(withSegs(r), position)
                 ELSE withSegs(r)
         IN  [dev EXCEPT !.buffer = [r \in Rows |-> withDot(r)]]

\* Mutant: quotient and remainder are swapped.
SetDigit16Swapped(dev, position, char, dot) ==
    IF position < 0 \/ position >= MaxDigitsPerDisplay * NumDisplays
    THEN dev
    ELSE LET display == GoMod(position, MaxDigitsPerDisplay)
             digitInDisplay == GoDiv(position, MaxDigitsPerDisplay)
         IN  SetDigitOnDisplay(dev, display, digitInDisplay, char, dot)

\* SetDigit16(position, char, dot)
SetDigit16(dev, position, char, dot) ==
    IF position < 0 \/ position >= MaxDigitsPerDisplay * NumDisplays
    THEN dev
    ELSE LET display == GoDiv(position, MaxDigitsPerDisplay)
             digitInDisplay == GoMod(position, MaxDigitsPerDisplay)
         IN  SetDigitOnDisplay(dev, display, digitInDisplay, char, dot)

\* Mutant: the loop stops one position early.
RECURSIVE clearLoopShort(_, _, _)
clearLoopShort(dev, display, pos) ==
    IF pos >= MaxDigitsPerDisplay - 1 \/ dev.panicked THEN dev
    ELSE clearLoopShort(setPattern(dev, display, pos, font[SpaceRune], FALSE),
                        display, pos + 1)

\* The loop of ClearOnDisplay from pos on.
RECURSIVE clearLoop(_, _, _)
clearLoop(dev, display, pos) ==
    IF pos >= MaxDigitsPerDisplay \/ dev.panicked THEN dev
    ELSE clearLoop(setPattern(dev, display, pos, font[SpaceRune], FALSE),
                   display, pos + 1)

\* ClearOnDisplay(display)
ClearOnDisplay(dev, display) ==
    IF display < 0 \/ display >= NumDisplays THEN dev
    ELSE clearLoop(dev, display, 0)

\* Mutant: only the rows of the first display are zeroed.
ClearAllFirstOnly(dev) ==
    [dev EXCEPT !.buffer = [r \in Rows |-> IF r < MaxDigitsPerDisplay THEN 0
                                           ELSE dev.buffer[r]]]

\* ClearAll()
ClearAll(dev) == [dev EXCEPT !.buffer = [r \in Rows |-> 0]]

\* Mutant: 0x7F where 0xFF was meant: the eighth digit stays dark.
LightUpAllSeven(dev) == [dev EXCEPT !.buffer = [r \in Rows |-> 127]]

\* LightUpAll()
LightUpAll(dev) == [dev EXCEPT !.buffer = [r \in Rows |-> 255]]

\* Mutant: the rows are sent without the display-RAM address before them.
DisplayWithoutAddress(dev) ==
    LET data == [k \in 1..BufferLen |-> dev.buffer[k - 1]]
    IN  Tx(dev, data)

\* Display()
Display(dev) ==
    LET data == <<0>> \o [k \in 1..BufferLen |-> dev.buffer[k - 1]]
    IN  Tx(dev, data)

\* Mutant: a rune the font lacks leaves its digit blank instead of being
\* skipped.
RECURSIVE writeLoopEverySlot(_, _, _, _, _)
writeLoopEverySlot(dev, display, runes, i, digitPos) ==
    IF ~(i <= Len(runes) /\ digitPos < MaxDigitsPerDisplay) \/ dev.panicked
    THEN dev
    ELSE LET char == runes[i]
             dot == i + 1 <= Len(runes) /\ runes[i + 1] = DotRune
         IN  IF InFont(char)
             THEN writeLoopEverySlot(
                      setPattern(dev, display, digitPos, font[char], dot),
                      display, runes, (IF dot THEN i + 1 ELSE i) + 1,
                      digitPos + 1)
             ELSE writeLoopEverySlot(dev, display, runes, i + 1, digitPos + 1)

\* The loop of WriteString: i is the (1-based) index into runes.
RECURSIVE writeLoop(_, _, _, _, _)
writeLoop(dev, display, runes, i, digitPos) ==
    IF ~(i <= Len(runes) /\ digitPos < MaxDigitsPerDisplay) \/ dev.panicked
    THEN dev
    ELSE LET char == runes[i]
             dot == i + 1 <= Len(runes) /\ runes[i + 1] = DotRune
         IN  IF InFont(char)
             THEN writeLoop(setPattern(dev, display, digitPos, font[char], dot),
                            display, runes, (IF dot THEN i + 1 ELSE i) + 1,
                            digitPos + 1)
             ELSE writeLoop(dev, display, runes, i + 1, digitPos)

\* Mutant: the target display is not cleared first.
WriteStringNoClear(dev, display, s) ==
    IF display < 0 \/ display >= NumDisplays THEN dev
    ELSE writeLoop(dev, display, Runes(s), 1, 0)

\* WriteString(display, s)
WriteString(dev, display, s) ==
    IF display < 0 \/ display >= NumDisplays THEN dev
    ELSE writeLoop(ClearOnDisplay(dev, display), display, Runes(s), 1, 0)

----------------------------------------------------------------------------
(* Brightness, configuration and the fades.                                *)

\* uint8(i)
Uint8(i) == i % 256

\* Mutant: the level is stored and sent as given, without the clamp to 15.
SetBrightnessNoClamp(dev, brightness) ==
    Tx([dev EXCEPT !.currentBrightness = brightness],
       <<Or8(ht16k33SetBrightness, brightness)>>)

\* Mutant: the level is clamped for the store, but the command is built from
\* the argument.
SetBrightnessSendsAsGiven(dev, brightness) ==
    LET level == IF brightness > 15 THEN 15 ELSE brightness
    IN  Tx([dev EXCEPT !.currentBrightness = level],
           <<Or8(ht16k33SetBrightness, brightness)>>)

\* Mutant: setting the brightness moves the step counter of the fade to the
\* level set.
SetBrightnessMovesStep(dev, brightness) ==
    LET level == IF brightness > 15 THEN 15 ELSE brightness
    IN  Tx([dev EXCEPT !.currentBrightness = level, !.fadeStep = level],
           <<Or8(ht16k33SetBrightness, level)>>)

\* SetBrightness(brightness uint8)
SetBrightness(dev, brightness) ==
    LET level == IF brightness > 15 THEN 15 ELSE brightness
    IN  Tx([dev EXCEPT !.currentBrightness = level],
           <<Or8(ht16k33SetBrightness, level)>>)

\* Mutant: the display is turned on before the oscillator runs.
ConfigureDisplayFirst(dev) ==
    SetBrightness(Tx(Tx(dev, <<ht16k33TurnOnDisplay>>),
                     <<ht16k33TurnOnOscillator>>), 15)

\* Configure()
Configure(dev) ==
    SetBrightness(Tx(Tx(dev, <<ht16k33TurnOnOscillator>>),
                     <<ht16k33TurnOnDisplay>>), 15)

\* time.Sleep(delay) returns at once when delay is zero or negative.
Sleep(t, delay) == IF delay > 0 THEN t + delay ELSE t

\* One turn of a fade loop: SetBrightness(uint8(i)); time.Sleep(delay).
\* st is the device together with the clock.
fadeTurn(st, i, delay) ==
    [dev |-> SetBrightness(st.dev, Uint8(i)), t |-> Sleep(st.t, delay)]

\* Mutant: the fade-out stops above level 0 (i > 0 where i >= 0 was meant).
RECURSIVE fadeOutLoopAboveZero(_, _, _, _)
fadeOutLoopAboveZero(st, from, i, delay) ==
    IF i + 1 > from THEN st
    ELSE fadeTurn(fadeOutLoopAboveZero(st, from, i + 1, delay), i + 1, delay)

\* for i := int(d.currentBrightness); i >= 0; i-- { ... }
\* entered with st: the device and the clock once the turns from, from-1,
\* ..., i are done (the whole loop: i = 0).
RECURSIVE fadeOutLoop(_, _, _, _)
fadeOutLoop(st, from, i, delay) ==
    IF i > from THEN st
    ELSE fadeTurn(fadeOutLoop(st, from, i + 1, delay), i, delay)

\* for i := 0; i <= 15; i++ { ... } entered with st: the device and the clock
\* once the turns 0, 1, ..., i are done (the whole loop: i = 15).
RECURSIVE fadeInLoop(_, _, _)
fadeInLoop(st, i, delay) ==
    IF i < 0 THEN st
    ELSE fadeTurn(fadeInLoop(st, i - 1, delay), i, delay)

\* Mutant: the content is switched before the display has faded out.
DisplayFadeBlockingFlushFirst(dev, delay, t) ==
    LET shown  == [dev |-> Display(dev), t |-> t]
        out    == fadeOutLoop(shown, dev.currentBrightness, 0, delay)
        backIn == fadeInLoop(out, 15, delay)
    IN  IF out.dev.panicked THEN out
        ELSE [backIn EXCEPT !.dev = SetBrightness(@, 15)]

\* DisplayFadeBlocking(delay), entered at time t: the device and the time at
\* which it returns.
DisplayFadeBlocking(dev, delay, t) ==
    LET out    == fadeOutLoop([dev |-> dev, t |-> t],
                              dev.currentBrightness, 0, delay)
        shown  == [out EXCEPT !.dev = Display(@)]
        backIn == fadeInLoop(shown, 15, delay)
    IN  IF out.dev.panicked THEN out          \* a panic ends the call there
        ELSE IF shown.dev.panicked THEN shown
        ELSE [backIn EXCEPT !.dev = SetBrightness(@, 15)]

\* LightUpAllFadeBlocking(delay), entered at time t: LightUpAll, then a loop
\* of the same turns as the fade-in of DisplayFadeBlocking; no statement of
\* it calls Display.
LightUpAllFadeBlocking(dev, delay, t) ==
    fadeInLoop([dev |-> LightUpAll(dev), t |-> t], 15, delay)

\* IsFading()
IsFading(dev) == dev.fadeState # fadeStateIdle

\* Mutant: a start during a fade restarts it.
StartFadeRestarts(dev, delay, t) ==
    [dev EXCEPT !.fadeDelay = delay,
                !.fadeState = fadeStateOut,
                !.fadeStep = dev.currentBrightness,
                !.lastUpdateTime = t]

\* StartFade(delay), called at time t
StartFade(dev, delay, t) ==
    IF dev.fadeState # fadeStateIdle THEN dev
    ELSE [dev EXCEPT !.fadeDelay = delay,
                     !.fadeState = fadeStateOut,
                     !.fadeStep = dev.currentBrightness,
                     !.lastUpdateTime = t]

\* Mutant: the fade-in ends one step late (> 16 where > 15 was meant).
fadeSwitchInPastFifteen(dev) ==
    CASE dev.fadeState = fadeStateOut ->
            LET lit  == SetBrightness(dev, Uint8(dev.fadeStep))
                step == lit.fadeStep - 1
            IN  IF step < 0
                THEN [Display([lit EXCEPT !.fadeStep = step])
                          EXCEPT !.fadeState = fadeStateIn, !.fadeStep = 0]
                ELSE [lit EXCEPT !.fadeStep = step]
      [] dev.fadeState = fadeStateIn ->
            LET lit  == SetBrightness(dev, Uint8(dev.fadeStep))
                step == lit.fadeStep + 1
            IN  IF step > 16
                THEN [lit EXCEPT !.fadeStep = step, !.fadeState = fadeStateIdle]
                ELSE [lit EXCEPT !.fadeStep = step]
      [] OTHER -> dev

\* Mutant: every step of the fade-in flushes the buffer as well.
fadeSwitchFlushesOnIn(dev) ==
    CASE dev.fadeState = fadeStateOut ->
            LET lit  == SetBrightness(dev, Uint8(dev.fadeStep))
                step == lit.fadeStep - 1
            IN  IF step < 0
                THEN [Display([lit EXCEPT !.fadeStep = step])
                          EXCEPT !.fadeState = fadeStateIn, !.fadeStep = 0]
                ELSE [lit EXCEPT !.fadeStep = step]
      [] dev.fadeState = fadeStateIn ->
            LET lit  == Display(SetBrightness(dev, Uint8(dev.fadeStep)))
                step == lit.fadeStep + 1
            IN  IF step > 15
                THEN [lit EXCEPT !.fadeStep = step, !.fadeState = fadeStateIdle]
                ELSE [lit EXCEPT !.fadeStep = step]
      [] OTHER -> dev

\* Mutant: the fade-in starts at step 1 (fadeStep = 1 where 0 was meant).
fadeSwitchInFromOne(dev) ==
    CASE dev.fadeState = fadeStateOut ->
            LET lit  == SetBrightness(dev, Uint8(dev.fadeStep))
                step == lit.fadeStep - 1
            IN  IF step < 0
                THEN [Display([lit EXCEPT !.fadeStep = step])
                          EXCEPT !.fadeState = fadeStateIn, !.fadeStep = 1]
                ELSE [lit EXCEPT !.fadeStep = step]
      [] dev.fadeState = fadeStateIn ->
            LET lit  == SetBrightness(dev, Uint8(dev.fadeStep))
                step == lit.fadeStep + 1
            IN  IF step > 15
                THEN [lit EXCEPT !.fadeStep = step, !.fadeState = fadeStateIdle]
                ELSE [lit EXCEPT !.fadeStep = step]
      [] OTHER -> dev

\* The switch of UpdateFade, on a device whose lastUpdateTime is already set.
fadeSwitch(dev) ==
    CASE dev.fadeState = fadeStateOut ->
            LET lit  == SetBrightness(dev, Uint8(dev.fadeStep))
                step == lit.fadeStep - 1
            IN  IF step < 0
                THEN [Display([lit EXCEPT !.fadeStep = step])
                          EXCEPT !.fadeState = fadeStateIn, !.fadeStep = 0]
                ELSE [lit EXCEPT !.fadeStep = step]
      [] dev.fadeState = fadeStateIn ->
            LET lit  == SetBrightness(dev, Uint8(dev.fadeStep))
                step == lit.fadeStep + 1
            IN  IF step > 15
                THEN [lit EXCEPT !.fadeStep = step, !.fadeState = fadeStateIdle]
                ELSE [lit EXCEPT !.fadeStep = step]
      [] OTHER -> dev

\* Mutant: the content is never switched at the end of the fade-out.
UpdateFadeNoFlush(dev, t) ==
    IF dev.fadeState = fadeStateIdle \/ t - dev.lastUpdateTime < dev.fadeDelay
    THEN [dev |-> dev, ret |-> IsFading(dev)]
    ELSE LET stamped == [dev EXCEPT !.lastUpdateTime = t]
             lit == SetBrightness(stamped, Uint8(stamped.fadeStep))
             after ==
                 IF stamped.fadeState = fadeStateOut /\ stamped.fadeStep - 1 < 0
                 THEN [lit EXCEPT !.fadeState = fadeStateIn, !.fadeStep = 0]
                 ELSE fadeSwitch(stamped)
         IN  [dev |-> after, ret |-> IsFading(after)]

\* Mutant: the time of the tick is recorded before the tick is found too early.
UpdateFadeStampsEarly(dev, t) ==
    LET stamped == [dev EXCEPT !.lastUpdateTime = t]
    IN  IF dev.fadeState = fadeStateIdle \/ t - dev.lastUpdateTime < dev.fadeDelay
        THEN [dev |-> stamped, ret |-> IsFading(stamped)]
        ELSE LET after == fadeSwitch(stamped)
             IN  [dev |-> after, ret |-> IsFading(after)]

\* Mutant: the result is taken before the step, not after it.
UpdateFadeStaleResult(dev, t) ==
    IF dev.fadeState = fadeStateIdle \/ t - dev.lastUpdateTime < dev.fadeDelay
    THEN [dev |-> dev, ret |-> IsFading(dev)]
    ELSE LET stamped == [dev EXCEPT !.lastUpdateTime = t]
         IN  [dev |-> fadeSwitch(stamped), ret |-> IsFading(stamped)]

\* UpdateFade(), called at time t: the device and the value returned.
UpdateFade(dev, t) ==
    IF dev.fadeState = fadeStateIdle \/ t - dev.lastUpdateTime < dev.fadeDelay
    THEN [dev |-> dev, ret |-> IsFading(dev)]
    ELSE LET stamped == [dev EXCEPT !.lastUpdateTime = t]
             after   == fadeSwitch(stamped)
         IN  [dev |-> after, ret |-> IsFading(after)]

----------------------------------------------------------------------------
(* The callers.  A call appends the method and its arguments to `calls`    *)
(* and leaves the device it found in `before`; a caller whose call         *)
(* panicked is dead and calls nothing more.                                *)

\* brightness and delay are the arguments of the brightness and fade methods;
\* ret is the bool UpdateFade returned; err tells whether the method handed an
\* error to its caller, which no method of the package has a result for; a
\* StartFade that starts a fade is recorded with the time at which it was made,
\* the number of writes the bus had received by then and the brightness the
\* device had stored, a blocking fade
\* with the time at which it was entered; num is the number given to the
\* digit method of the variant that takes one.
NoCall ==
    [op |-> "none", display |-> 0, position |-> 0, char |-> 0, pattern |-> 0,
     dot |-> FALSE, s |-> <<>>, again |-> FALSE,
     brightness |-> 0, delay |-> 0, ret |-> FALSE, err |-> FALSE,
     at |-> 0, sent |-> 0, num |-> 0]

\* The most recent call.
call == IF calls = <<>> THEN NoCall ELSE calls[Len(calls)]

\* The caller is alive and has a call to make.
Ready == opsLeft > 0 /\ ~d.panicked

\* The call c is made on the device d.
Made(c) ==
    /\ calls' = Append(calls, c)
    /\ before' = d
    /\ opsLeft' = opsLeft - 1
    /\ UNCHANGED now

CallSetPattern(display, position, pattern, dot) ==
    /\ Ready
    /\ d' = setPattern(d, display, position, pattern, dot)
    /\ Made([NoCall EXCEPT !.op = "setPattern", !.display = display,
                           !.position = position, !.pattern = pattern,
                           !.dot = dot])

CallSetDigitOnDisplay(display, position, char, dot) ==
    /\ Ready
    /\ d' = SetDigitOnDisplay(d, display, position, char, dot)
    /\ Made([NoCall EXCEPT !.op = "SetDigitOnDisplay", !.display = display,
                           !.position = position, !.char = char, !.dot = dot])

CallSetDigitOnDisplayNum(display, position, num, dot) ==
    /\ Ready
    /\ d' = SetDigitOnDisplayNum(d, display, position, num, dot)
    /\ Made([NoCall EXCEPT !.op = "SetDigitOnDisplayNum", !.display = display,
                           !.position = position, !.num = num, !.dot = dot])

CallSetDigit16(position, char, dot) ==
    /\ Ready
    /\ d' = SetDigit16(d, position, char, dot)
    /\ Made([NoCall EXCEPT !.op = "SetDigit16", !.position = position,
                           !.char = char, !.dot = dot])

CallClearOnDisplay(display) ==
    /\ Ready
    /\ d' = ClearOnDisplay(d, display)
    /\ Made([NoCall EXCEPT !.op = "ClearOnDisplay", !.display = display])

CallWriteString(display, s) ==
    /\ Ready
    /\ d' = WriteString(d, display, s)
    /\ Made([NoCall EXCEPT !.op = "WriteString", !.display = display, !.s = s])

CallClearAll ==
    /\ Ready
    /\ d' = ClearAll(d)
    /\ Made([NoCall EXCEPT !.op = "ClearAll"])

CallLightUpAll ==
    /\ Ready
    /\ d' = LightUpAll(d)
    /\ Made([NoCall EXCEPT !.op = "LightUpAll"])

CallDisplay ==
    /\ Ready
    /\ d' = Display(d)
    /\ Made([NoCall EXCEPT !.op = "Display"])

CallSetBrightness(brightness) ==
    /\ Ready
    /\ d' = SetBrightness(d, brightness)
    /\ Made([NoCall EXCEPT !.op = "SetBrightness", !.brightness = brightness])

CallConfigure ==
    /\ Ready
    /\ d' = Configure(d)
    /\ Made([NoCall EXCEPT !.op = "Configure"])

\* The call returns when its last sleep is over.
CallDisplayFadeBlocking(delay) ==
    /\ Ready
    /\ LET done == DisplayFadeBlocking(d, delay, now)
       IN  d' = done.dev /\ now' = done.t
    /\ calls' = Append(calls, [NoCall EXCEPT !.op = "DisplayFadeBlocking",
                                             !.delay = delay, !.at = now])
    /\ before' = d
    /\ opsLeft' = opsLeft - 1

CallLightUpAllFadeBlocking(delay) ==
    /\ Ready
    /\ LET done == LightUpAllFadeBlocking(d, delay, now)
       IN  d' = done.dev /\ now' = done.t
    /\ calls' = Append(calls, [NoCall EXCEPT !.op = "LightUpAllFadeBlocking",
                                             !.delay = delay, !.at = now])
    /\ before' = d
    /\ opsLeft' = opsLeft - 1

CallStartFade(delay) ==
    /\ Ready
    /\ d' = StartFade(d, delay, now)
    /\ Made(IF IsFading(d)
            THEN [NoCall EXCEPT !.op = "StartFade", !.delay = delay]
            ELSE [NoCall EXCEPT !.op = "StartFade", !.delay = delay,
                                !.at = now, !.sent = Len(d.bus),
                                !.brightness = d.currentBrightness])

\* The main loop polls UpdateFade on every turn; the turns of one polling run
\* are kept as one entry of `calls`, the latest.
CallUpdateFade ==
    /\ ~d.panicked
    /\ LET tick == UpdateFade(d, now)
           c    == [NoCall EXCEPT !.op = "UpdateFade", !.ret = tick.ret]
       IN  /\ d' = tick.dev
           /\ calls' = IF call.op = "UpdateFade"
                       THEN [calls EXCEPT ![Len(calls)] = c]
                       ELSE Append(calls, c)
    /\ before' = d
    /\ UNCHANGED <<now, opsLeft>>

\* The clock moves on; it is followed for MaxWait units past the last
\* transition of the fade.
Advance ==
    /\ now - d.lastUpdateTime < MaxWait
    /\ now' = now + 1
    /\ UNCHANGED <<d, calls, before, opsLeft>>

\* The bus stops acknowledging: from here on Tx returns an error.
BusFails ==
    /\ ~d.busDown
    /\ d' = [d EXCEPT !.busDown = TRUE]
    /\ UNCHANGED <<now, calls, before, opsLeft>>

\* What method c of the record `call` does to a device.
Apply(dev, c) ==
    CASE c.op = "setPattern" ->
            setPattern(dev, c.display, c.position, c.pattern, c.dot)
      [] c.op = "SetDigitOnDisplay" ->
            SetDigitOnDisplay(dev, c.display, c.position, c.char, c.dot)
      [] c.op = "SetDigit16" -> SetDigit16(dev, c.position, c.char, c.dot)
      [] c.op = "ClearOnDisplay" -> ClearOnDisplay(dev, c.display)
      [] c.op = "WriteString" -> WriteString(dev, c.display, c.s)
      [] c.op = "ClearAll" -> ClearAll(dev)
      [] c.op = "LightUpAll" -> LightUpAll(dev)
      [] c.op = "Display" -> Display(dev)
      [] OTHER -> dev

\* The caller makes its last call once more, with the same arguments.
CallAgain ==
    /\ call.op # "none"
    /\ ~call.again
    /\ ~d.panicked
    /\ d' = Apply(d, call)
    /\ calls' = Append(calls, [call EXCEPT !.again = TRUE])
    /\ before' = d
    /\ UNCHANGED <<now, opsLeft>>

----------------------------------------------------------------------------
(* Spec: sequences of at most MaxOps calls on a freshly created device,    *)
(* with the arguments of the package's tests and example.                  *)

\* I2C addresses of the chip: 0x70 (tests, example) and 0x71.
Addresses == {112, 113}

\* "1.", "2", "88", "99"
SeqStrings == {<<49, 46>>, <<50>>, <<56, 56>>, <<57, 57>>}

Init ==
    /\ d \in {New(a) : a \in Addresses}
    /\ now = 0
    /\ calls = <<>>
    /\ before = d
    /\ opsLeft = MaxOps

Next ==
    \/ \E display \in {0, 1}, position \in {0, 7} :
           CallSetDigitOnDisplay(display, position, 56, TRUE)         \* '8.'
    \/ \E position \in {7, 8} : CallSetDigit16(position, 49, FALSE)   \* '1'
    \/ \E display \in {0, 1} : CallClearOnDisplay(display)
    \/ \E display \in {0, 1}, s \in SeqStrings : CallWriteString(display, s)
    \/ CallClearAll
    \/ CallLightUpAll
    \/ CallDisplay

Spec == Init /\ [][Next]_vars

----------------------------------------------------------------------------
(* SpecCodec: one call, with every argument in and around its range, on a  *)
(* device holding one of several contents, then possibly the same call     *)
(* once more.                                                              *)

\* "88", "99", "1.2.3.4.5.6.7.8.", "-_?=", "1234567", "12345678.", "1."
Str88 == <<56, 56>>
Str99 == <<57, 57>>
StrDotted == <<49, 46, 50, 46, 51, 46, 52, 46, 53, 46, 54, 46, 55, 46, 56, 46>>
StrSigns == <<45, 95, 63, 61>>
Str1234567 == <<49, 50, 51, 52, 53, 54, 55>>
Str12345678Dot == <<49, 50, 51, 52, 53, 54, 55, 56, 46>>
Str1Dot == <<49, 46>>

\* Devices a caller can hold: each is New followed by the calls written here.
Fresh == New(112)
AllLit == LightUpAll(Fresh)
BothWritten == WriteString(WriteString(Fresh, 0, Str88), 1, Str99)
Shown ==
    Display(SetDigit16(WriteString(WriteString(Fresh, 0, StrDotted), 1, StrSigns),
                       15, 56, TRUE))

PriorDevices == {Fresh, AllLit, BothWritten, Shown}

\* Arguments: every valid value and the nearest invalid ones on both sides.
Displays == -1..NumDisplays
Positions == -1..MaxDigitsPerDisplay
Positions16 == -1..(MaxDigitsPerDisplay * NumDisplays)
Patterns == 0..127

\* Every rune of the font, and '.', 'x', U+00E9 and U+FFFD, which it lacks.
Chars == DOMAIN font \cup {DotRune, 120, 233, RuneError}

\* Bytes of the strings: '1', '8', '.', 'x', and 0xC3 0xA9 (U+00E9 in UTF-8).
Alphabet == {49, 56, 46, 120, 195, 169}

\* A string opens with nothing, with one digit and its point, with 7 digits or
\* with 8 digits and a point, and goes on with at most MaxLen bytes.
Openings == {<<>>, Str1Dot, Str1234567, Str12345678Dot}
Tails == UNION {[1..n -> Alphabet] : n \in 0..MaxLen}
CodecStrings == {p \o t : p \in Openings, t \in Tails}

InitCodec ==
    /\ d \in PriorDevices
    /\ now = 0
    /\ calls = <<>>
    /\ before = d
    /\ opsLeft = 1

CodecSetPattern ==
    /\ Ready
    /\ \E display \in Displays, position \in Positions, pattern \in Patterns,
          dot \in BOOLEAN :
           CallSetPattern(display, position, pattern, dot)

CodecSetDigitOnDisplay ==
    /\ Ready
    /\ \E display \in Displays, position \in Positions, char \in Chars,
          dot \in BOOLEAN :
           CallSetDigitOnDisplay(display, position, char, dot)

CodecSetDigit16 ==
    /\ Ready
    /\ \E position \in Positions16, char \in Chars, dot \in BOOLEAN :
           CallSetDigit16(position, char, dot)

CodecClearOnDisplay ==
    /\ Ready
    /\ \E display \in Displays : CallClearOnDisplay(display)

CodecWriteString ==
    /\ Ready
    /\ \E display \in Displays, s \in CodecStrings : CallWriteString(display, s)

NextCodec ==
    \/ CodecSetPattern
    \/ CodecSetDigitOnDisplay
    \/ CodecSetDigit16
    \/ CodecClearOnDisplay
    \/ CodecWriteString
    \/ CallClearAll
    \/ CallLightUpAll
    \/ CallDisplay
    \/ CallAgain

SpecCodec == InitCodec /\ [][NextCodec]_vars

----------------------------------------------------------------------------
(* SpecBus: one call of a method that writes to the bus, on a device       *)
(* holding one of several contents at every brightness, over a bus that    *)
(* may have stopped acknowledging.                                         *)

\* The levels SetBrightness can have stored.
Levels == 0..15

\* Every uint8.
Brightnesses == 0..255

\* Delays of a fade, in units of the clock: none and one unit.
FadeDelays == {0, 1}

\* A device at the chip's second address, and one in the middle of a fade-out.
LitAt71 == LightUpAll(New(113))
Fading == UpdateFade(StartFade(BothWritten, 0, 0), 0).dev

BusDevices == PriorDevices \cup {LitAt71, Fading}

\* A device of BusDevices after SetBrightness(level).
Dimmed == {SetBrightness(p, level) : p \in BusDevices, level \in Levels}

InitBus ==
    /\ d \in Dimmed
    /\ now = 0
    /\ calls = <<>>
    /\ before = d
    /\ opsLeft = 1

BusSetBrightness ==
    /\ Ready
    /\ \E brightness \in Brightnesses : CallSetBrightness(brightness)

BusDisplayFadeBlocking ==
    /\ Ready
    /\ \E delay \in FadeDelays : CallDisplayFadeBlocking(delay)

BusLightUpAllFadeBlocking ==
    /\ Ready
    /\ \E delay \in FadeDelays : CallLightUpAllFadeBlocking(delay)

NextBus ==
    \/ BusSetBrightness
    \/ BusDisplayFadeBlocking
    \/ BusLightUpAllFadeBlocking
    \/ CallConfigure
    \/ CallDisplay
    \/ BusFails

SpecBus == InitBus /\ [][NextBus]_vars

----------------------------------------------------------------------------
(* SpecFade: the non-blocking fade.  A caller starts a fade on a device at *)
(* any brightness, polls UpdateFade while the clock runs, and may call     *)
(* StartFade once more.  SpecFadeFair is the main loop of the example,     *)
(* with what it guarantees: it keeps polling and time keeps passing.       *)

\* n polls of UpdateFade, all at time t.
RECURSIVE Polled(_, _, _)
Polled(dev, n, t) ==
    IF n = 0 THEN dev ELSE UpdateFade(Polled(dev, n - 1, t), t).dev

\* A device that has been through a fade without delay, started at level 0:
\* the poll of the fade-out, then the 16 polls of the fade-in.
Faded == Polled(StartFade(SetBrightness(Shown, 0), 0, 0), 17, 0)

InitFade ==
    /\ d \in {SetBrightness(Shown, level) : level \in Levels}
             \cup {Faded, SetBrightness(Faded, 0)}
    /\ now = 0
    /\ calls = <<>>
    /\ before = d
    /\ opsLeft = 2

\* The caller has asked for a fade.
Started == \E k \in 1..Len(calls) : calls[k].op = "StartFade"

\* The caller starts a fade, as the example does, on a device that is not
\* fading.
FadeStartFade ==
    /\ Ready
    /\ ~Started
    /\ \E delay \in FadeDelays : CallStartFade(delay)

\* A caller that does not ask IsFading() first starts a fade during a fade,
\* with another delay.
FadeStartAgain ==
    /\ Ready
    /\ IsFading(d)
    /\ \E delay \in FadeDelays \ {d.fadeDelay} : CallStartFade(delay)

NextFade ==
    \/ FadeStartFade
    \/ FadeStartAgain
    \/ CallUpdateFade
    \/ Advance

SpecFade == InitFade /\ [][NextFade]_vars

\* The main loop of the example: it starts a fade only when none is in
\* flight, polls UpdateFade on every turn and sleeps between turns.
NextLoop ==
    \/ FadeStartFade
    \/ CallUpdateFade
    \/ Advance

SpecFadeFair ==
    /\ InitFade
    /\ [][NextLoop]_vars
    /\ WF_vars(CallUpdateFade)
    /\ WF_vars(Advance)

----------------------------------------------------------------------------
(* SpecMix: a non-blocking fade with other calls between its polls.  The   *)
(* caller makes at most MaxOps calls besides the polls: it starts one fade *)
(* without delay, so that every poll of it takes effect, and sets the      *)
(* brightness, lights every segment in the buffer, flushes it, configures  *)
(* the chip or runs a blocking fade before, during or after it.            *)

\* A new device dimmed to brightness 1, and one that shows content at
\* brightness 2.
MixDevices == {SetBrightness(Fresh, 1), SetBrightness(Shown, 2)}

\* Arguments of SetBrightness: the lowest level, and the two ends of the
\* values above the highest.
MixLevels == {0, 16, 255}

InitMix ==
    /\ d \in MixDevices
    /\ now = 0
    /\ calls = <<>>
    /\ before = d
    /\ opsLeft = MaxOps

MixStartFade ==
    /\ Ready
    /\ ~Started
    /\ CallStartFade(0)

MixSetBrightness ==
    /\ Ready
    /\ \E brightness \in MixLevels : CallSetBrightness(brightness)

MixDisplayFadeBlocking ==
    /\ Ready
    /\ \E delay \in FadeDelays : CallDisplayFadeBlocking(delay)

NextMix ==
    \/ MixStartFade
    \/ CallUpdateFade
    \/ MixSetBrightness
    \/ MixDisplayFadeBlocking
    \/ CallDisplay
    \/ CallLightUpAll
    \/ CallConfigure

SpecMix == InitMix /\ [][NextMix]_vars

----------------------------------------------------------------------------
(* SpecNum: one call of the digit method that takes a number, with every   *)
(* byte as the number, on a device holding one of several contents.        *)

\* Every byte.
Nums == 0..255

NumSetDigitOnDisplay ==
    /\ Ready
    /\ \E display \in Displays, position \in Positions, num \in Nums,
          dot \in BOOLEAN :
           CallSetDigitOnDisplayNum(display, position, num, dot)

SpecNum == InitCodec /\ [][NumSetDigitOnDisplay]_vars

----------------------------------------------------------------------------
(* The claims.                                                             *)

\* 1 for TRUE, 0 for FALSE.
B2N(b) == IF b THEN 1 ELSE 0

\* The pattern a digit-write call asks for: the one it passes (setPattern)
\* or the glyph of its character, blank when the font has none.
AskedPattern(c) ==
    IF c.op = "setPattern" THEN c.pattern
    ELSE IF c.char \in DOMAIN font THEN font[c.char] ELSE 0

ValidDisplay(display) == display \in 0..(NumDisplays - 1)
ValidPosition(position) == position \in 0..(MaxDigitsPerDisplay - 1)

\* The last call is a digit write at a valid display and position.
DigitWritten ==
    /\ call.op \in {"setPattern", "SetDigitOnDisplay"}
    /\ ValidDisplay(call.display)
    /\ ValidPosition(call.position)

\* C1: after a digit write at a valid (display, position), bit `position` of
\* rows display*8+0 .. display*8+6 equals bits 0..6 of the pattern and bit
\* `position` of row display*8+7 equals the dot flag, whatever the rows held.
C1_DigitWriteSetsColumn ==
    DigitWritten =>
        /\ \A seg \in 0..6 :
               Bit(d.buffer[call.display * 8 + seg], call.position)
                   = Bit(AskedPattern(call), seg)
        /\ Bit(d.buffer[call.display * 8 + 7], call.position) = B2N(call.dot)

\* A digit write of pattern 0b0000110 without dot found all eight bits of its
\* column lit: six of them had to go.
C1_Witness ==
    /\ DigitWritten
    /\ call.op = "setPattern" /\ call.pattern = 6 /\ ~call.dot
    /\ call.display = 1 /\ call.position = 7
    /\ \A seg \in 0..7 : Bit(before.buffer[8 + seg], 7) = 1
    /\ d.buffer[8] = 127 /\ d.buffer[9] = 255 /\ d.buffer[15] = 127

\* C2: a digit write made twice in a row with identical arguments leaves the
\* device, and so its 16-byte buffer, exactly as the first write left it.
C2_DigitWriteIdempotent ==
    (DigitWritten /\ call.again) => d.buffer = before.buffer /\ d = before

\* The second of two identical writes of pattern 0b1011011 with dot, into the
\* column of display A where "1.2.3.4.5.6.7.8." had put its "3.".
C2_Witness ==
    /\ DigitWritten /\ call.again
    /\ call.op = "setPattern" /\ call.pattern = 91 /\ call.dot
    /\ call.display = 0 /\ call.position = 2
    /\ Len(d.bus) = 1
    /\ d.buffer[2] = 249 /\ d.buffer[4] = 166 /\ d.buffer[7] = 255

\* The display and the position in it that position16 addresses:
\* 0..7 are display A, 8..15 are display B at position16 - 8.
Addressed(position16) ==
    IF position16 <= 7 THEN [display |-> 0, position |-> position16]
    ELSE [display |-> 1, position |-> position16 - 8]

\* C3: for position16 in 0..15, SetDigit16(position16, c, dot) leaves the
\* device that SetDigitOnDisplay(position16 / 8, position16 % 8, c, dot)
\* leaves: display A for 0..7, display B at bit position16 - 8 for 8..15.
C3_SetDigit16Remaps ==
    (call.op = "SetDigit16" /\ ~call.again /\ call.position \in 0..15) =>
        LET a == Addressed(call.position)
        IN  /\ d = SetDigitOnDisplay(before, a.display, a.position,
                                     call.char, call.dot)
            /\ \A seg \in 0..6 :
                   Bit(d.buffer[a.display * 8 + seg], a.position)
                       = Bit(AskedPattern(call), seg)
            /\ Bit(d.buffer[a.display * 8 + 7], a.position) = B2N(call.dot)

\* SetDigit16(9, '2', true) on a fresh device lit bit 1 of rows 8, 9, 11, 12,
\* 14 and 15, and nothing of display A.
C3_Witness ==
    /\ call.op = "SetDigit16" /\ ~call.again
    /\ call.position = 9 /\ call.char = 50 /\ call.dot
    /\ before.buffer = ZeroBuffer
    /\ \A r \in 0..7 : d.buffer[r] = 0
    /\ d.buffer[8] = 2 /\ d.buffer[10] = 0 /\ d.buffer[15] = 2

\* The last call is a digit write whose coordinates are out of range.
InvalidDigitWrite ==
    \/ /\ call.op = "SetDigit16"
       /\ call.position \notin 0..15
    \/ /\ call.op \in {"setPattern", "SetDigitOnDisplay"}
       /\ ~(ValidDisplay(call.display) /\ ValidPosition(call.position))

\* C4: a digit write with an out-of-range coordinate changes none of the 16
\* buffer bytes, sends nothing on the bus and raises no fault: the device is
\* as it was.
C4_InvalidCoordinatesNoOp ==
    InvalidDigitWrite =>
        /\ d.buffer = before.buffer
        /\ d.bus = before.bus
        /\ ~d.panicked
        /\ d = before

\* setPattern(2, -1, 0b1111111, true) on a device with a lit buffer and one
\* transfer behind it.
C4_Witness ==
    /\ InvalidDigitWrite
    /\ call.op = "setPattern" /\ call.display = 2 /\ call.position = -1
    /\ call.pattern = 127 /\ call.dot
    /\ Len(d.bus) = 1 /\ d.buffer[15] = 128

\* The last call is a WriteString on a valid display.
StringWritten == call.op = "WriteString" /\ ValidDisplay(call.display)

\* The places in text of the characters the font has, in order.
Recognized(text) ==
    SelectSeq([i \in 1..Len(text) |-> i], LAMBDA i : text[i] \in DOMAIN font)

\* What slot k-1 shows of text, given the places rec of its recognized
\* characters: the glyph of the k-th recognized character, with the point iff
\* the character right after it is '.'; blank if there is no k-th recognized
\* character.
SlotGlyph(text, rec, k) == IF k <= Len(rec) THEN font[text[rec[k]]] ELSE 0

SlotPoint(text, rec, k) ==
    /\ k <= Len(rec)
    /\ rec[k] + 1 <= Len(text)
    /\ text[rec[k] + 1] = 46

C6_Expected == <<0, 1, 1, 0, 0, 0, 0, 1, 1, 1, 0, 1, 1, 0, 1, 0>>

\* The calls made on the fresh device are WriteString(0, "1.") and then
\* WriteString(1, "2").
C6_Scenario ==
    /\ Len(calls) = 2
    /\ calls[1].op = "WriteString" /\ calls[1].display = 0
    /\ calls[1].s = <<49, 46>>
    /\ calls[2].op = "WriteString" /\ calls[2].display = 1
    /\ calls[2].s = <<50>>

\* C6: on a freshly created device, WriteString(0, "1.") followed by
\* WriteString(1, "2") leaves the buffer [0,1,1,0,0,0,0,1, 1,1,0,1,1,0,1,0].
C6_RegressionBuffer ==
    C6_Scenario => \A r \in Rows : d.buffer[r] = C6_Expected[r + 1]

\* The two calls have been made; the point of "1." is lit, and nothing went to
\* the bus.
C6_Witness ==
    /\ C6_Scenario
    /\ d.buffer[7] = 1 /\ d.buffer[14] = 1
    /\ d.bus = <<>>

\* The rows of a display.
Block(display) == (display * 8)..(display * 8 + 7)

\* C7: after WriteString(display, text) on a valid display the 8 rows of that
\* display are those the same call leaves on a fresh device, whatever they
\* showed before; the 8 rows of the other display and every other field are
\* unchanged; on a display outside {0,1} the device is unchanged.
C7_WriteStringClearsFirst ==
    (call.op = "WriteString") =>
        IF ValidDisplay(call.display)
        THEN /\ LET onFresh == WriteString(Fresh, call.display, call.s)
                IN  \A r \in Block(call.display) :
                        d.buffer[r] = onFresh.buffer[r]
             /\ \A r \in Rows \ Block(call.display) :
                    d.buffer[r] = before.buffer[r]
             /\ [d EXCEPT !.buffer = before.buffer] = before
        ELSE d = before

\* WriteString(0, "1") where display A showed "88" and display B "99": one
\* digit is left on A, and B still shows "99".
C7_Witness ==
    /\ call.op = "WriteString" /\ ~call.again
    /\ call.display = 0 /\ call.s = <<49>>
    /\ before.buffer[0] = 3 /\ before.buffer[1] = 3 /\ before.buffer[8] = 3
    /\ d.buffer[0] = 0 /\ d.buffer[1] = 1 /\ d.buffer[8] = 3

\* A blank pattern without dot written to positions 0..n-1 of a display.
RECURSIVE BlankWritten(_, _, _)
BlankWritten(dev, display, n) ==
    IF n = 0 THEN dev
    ELSE setPattern(BlankWritten(dev, display, n - 1), display, n - 1, 0, FALSE)

\* The calls made on the fresh device are WriteString(0, "88"),
\* WriteString(1, "99") and ClearOnDisplay(0).
C8_Scenario ==
    /\ Len(calls) = 3
    /\ calls[1].op = "WriteString" /\ calls[1].display = 0
    /\ calls[1].s = <<56, 56>>
    /\ calls[2].op = "WriteString" /\ calls[2].display = 1
    /\ calls[2].s = <<57, 57>>
    /\ calls[3].op = "ClearOnDisplay" /\ calls[3].display = 0

\* C8: ClearOnDisplay(display) on display 0 or 1 leaves the device that a
\* blank pattern without dot written to all 8 positions of the display
\* leaves: the 8 rows of the display are 0 and the 8 rows of the other display
\* are unchanged; after writing "88" and "99" to the two displays and clearing
\* display 0, the buffer is that of a fresh device with "99" on display 1.
C8_ClearOnDisplay ==
    /\ (call.op = "ClearOnDisplay" /\ ValidDisplay(call.display)) =>
           /\ d = BlankWritten(before, call.display, 8)
           /\ \A r \in Block(call.display) : d.buffer[r] = 0
           /\ \A r \in Rows \ Block(call.display) : d.buffer[r] = before.buffer[r]
    /\ C8_Scenario =>
           d.buffer = WriteString(New(d.Address), 1, <<57, 57>>).buffer

\* The three calls of the scenario have been made: display A, which showed
\* "88", is dark and display B shows "99".
C8_Witness ==
    /\ C8_Scenario
    /\ before.buffer[0] = 3 /\ before.buffer[6] = 3
    /\ d.buffer[0] = 0 /\ d.buffer[6] = 0 /\ d.buffer[8] = 3

\* C9: whatever calls came before it, ClearAll leaves all 16 buffer bytes 0.
C9_ClearAllZeroes ==
    (call.op = "ClearAll") => \A r \in Rows : d.buffer[r] = 0

\* ClearAll as the third call, on a buffer with bits lit in both displays.
C9_Witness ==
    /\ call.op = "ClearAll" /\ Len(calls) = 3
    /\ before.buffer[0] # 0 /\ before.buffer[15] # 0
    /\ d.buffer = ZeroBuffer

\* 0x00 followed by sixteen 0xFF
C10_Expected == <<0>> \o [k \in 1..16 |-> 255]

\* The last two calls are LightUpAll and then Display.
C10_ShownLit ==
    /\ Len(calls) >= 2
    /\ calls[Len(calls) - 1].op = "LightUpAll"
    /\ call.op = "Display"

\* C10: LightUpAll leaves every one of the 16 buffer bytes 0xFF, and a Display
\* right after it makes one transfer, of exactly 17 bytes: 0x00 and sixteen
\* 0xFF.
C10_LightUpAll ==
    /\ (call.op = "LightUpAll") => \A r \in Rows : d.buffer[r] = 255
    /\ C10_ShownLit =>
           /\ Len(d.bus) = Len(before.bus) + 1
           /\ Len(d.bus[Len(d.bus)].w) = 17
           /\ d.bus[Len(d.bus)].w = C10_Expected

\* WriteString(0, "2"), LightUpAll, Display: the buffer LightUpAll found was
\* neither dark nor lit, and the transfer is the first on the bus.
C10_Witness ==
    /\ C10_ShownLit /\ Len(calls) = 3
    /\ calls[1].op = "WriteString" /\ calls[1].s = <<50>> /\ calls[1].display = 0
    /\ Len(d.bus) = 1 /\ d.bus[1].w[17] = 255
    /\ d.buffer[15] = 255

----------------------------------------------------------------------------
(* Display, SetBrightness, Configure.                                      *)

\* The writes the bus received during the last call.
Sent == SubSeq(d.bus, Len(before.bus) + 1, Len(d.bus))

\* The bus kept what it had received before the last call.
EarlierKept ==
    /\ Len(d.bus) >= Len(before.bus)
    /\ SubSeq(d.bus, 1, Len(before.bus)) = before.bus

\* min(level, 15)
Clamped(level) == IF level < 15 THEN level ELSE 15

\* C11: Display makes exactly one write, to the address of the device, of 17
\* bytes: 0x00 and then buffer bytes 0..15 in row order; the buffer, the
\* stored brightness and the fade state are as they were.
C11_DisplayOneWrite ==
    (call.op = "Display") =>
        /\ EarlierKept
        /\ Len(Sent) = 1
        /\ Sent[1].addr = before.Address
        /\ Len(Sent[1].w) = 17
        /\ Sent[1].w[1] = 0
        /\ \A r \in Rows : Sent[1].w[r + 2] = before.buffer[r]
        /\ d.buffer = before.buffer
        /\ d.currentBrightness = before.currentBrightness
        /\ d.fadeState = before.fadeState
        /\ d.fadeStep = before.fadeStep

\* Display on the device at 0x71 with every row lit and brightness 4.
C11_Witness ==
    /\ call.op = "Display"
    /\ d.Address = 113 /\ d.currentBrightness = 4
    /\ Len(d.bus) = 2 /\ d.bus[2].addr = 113 /\ d.bus[2].w[17] = 255

\* C12: SetBrightness(level), level in 0..255, stores min(level, 15) and makes
\* exactly one write, of the single byte 0xE0 + min(level, 15); so
\* SetBrightness(20) stores 15 and SetBrightness(0) writes 0xE0.
C12_SetBrightnessClamps ==
    (call.op = "SetBrightness") =>
        /\ d.currentBrightness = Clamped(call.brightness)
        /\ EarlierKept
        /\ Len(Sent) = 1
        /\ Sent[1].addr = before.Address
        /\ Sent[1].w = <<224 + Clamped(call.brightness)>>
        /\ (call.brightness = 20 => d.currentBrightness = 15)
        /\ (call.brightness = 0 => Sent[1].w = <<224>>)

\* SetBrightness(20) on a device whose brightness was 3.
C12_Witness ==
    /\ call.op = "SetBrightness" /\ call.brightness = 20
    /\ before.currentBrightness = 3
    /\ d.currentBrightness = 15
    /\ d.bus[Len(d.bus)].w = <<239>>

\* C13: Configure makes exactly three single-byte writes, in this order: 0x21
\* (oscillator on), 0x81 (display on), 0xEF (brightness 15); afterwards the
\* stored brightness is 15 and the buffer is as it was.
C13_ConfigureSequence ==
    (call.op = "Configure") =>
        /\ EarlierKept
        /\ Len(Sent) = 3
        /\ Sent[1].w = <<33>> /\ Sent[2].w = <<129>> /\ Sent[3].w = <<239>>
        /\ \A k \in 1..3 : Sent[k].addr = before.Address
        /\ d.currentBrightness = 15
        /\ d.buffer = before.buffer

\* Configure on a device showing "88" and "99" at brightness 3.
C13_Witness ==
    /\ call.op = "Configure"
    /\ before.currentBrightness = 3 /\ before.buffer = BothWritten.buffer
    /\ before.fadeState = fadeStateIdle
    /\ d.currentBrightness = 15 /\ Len(d.bus) = 4

----------------------------------------------------------------------------
(* The non-blocking fade.                                                  *)

\* The last call is a poll of UpdateFade.
Ticked == call.op = "UpdateFade"

\* The poll made a step of the fade: it wrote a brightness to the bus.
Stepped == Ticked /\ Len(d.bus) > Len(before.bus)

\* The poll that takes the step counter of the fade-out below 0.
Handoff ==
    Stepped /\ before.fadeState = fadeStateOut /\ before.fadeStep - 1 < 0

\* A write is a buffer flush: 17 bytes, the first of them 0x00.
IsFlush(wr) == Len(wr.w) = 17 /\ wr.w[1] = 0

\* The fade the caller started from Idle: its call, and the flushes the bus
\* has received since.
FadeStart == calls[CHOOSE k \in 1..Len(calls) : calls[k].op = "StartFade"]
FadeFlushes ==
    Cardinality({k \in (FadeStart.sent + 1)..Len(d.bus) : IsFlush(d.bus[k])})

\* The flush is made by the poll that takes the step counter below 0, and by
\* no other: one flush since the start once the fade-out is over, none before.
C14_OneFlush ==
    /\ Started =>
           /\ d.fadeState = fadeStateOut => FadeFlushes = 0
           /\ d.fadeState # fadeStateOut => FadeFlushes = 1
    /\ Ticked => ((\E k \in 1..Len(Sent) : IsFlush(Sent[k])) <=> Handoff)
    /\ Handoff =>
           /\ d.fadeState = fadeStateIn
           /\ Len(Sent) = 2
           /\ Sent[1].w = <<224>>
           /\ IsFlush(Sent[2])

\* C14: a fade started from Idle at any brightness and polled again and again
\* while time passes reaches Idle with stored brightness 15, and exactly one
\* buffer flush is made on the way, by the poll on which the step counter of
\* the fade-out goes below 0.
C14_FadeCompletes ==
    /\ [] C14_OneFlush
    /\ IsFading(d) ~> (d.fadeState = fadeStateIdle /\ d.currentBrightness = 15)

\* A fade started at brightness 3 with delay 1 has ended: 4 + 16 brightness
\* writes and one flush since the start.
C14_Witness ==
    /\ Started /\ FadeStart.delay = 1
    /\ d.fadeState = fadeStateIdle /\ d.currentBrightness = 15
    /\ Len(d.bus) - FadeStart.sent = 21
    /\ FadeFlushes = 1
    /\ IsFlush(d.bus[FadeStart.sent + 5])

\* UpdateFade is called in a state where it finds no fade in flight, or the
\* delay not yet elapsed since the last transition.
TooEarly ==
    \/ d.fadeState = fadeStateIdle
    \/ now - d.lastUpdateTime < d.fadeDelay

\* C15: a poll made while Idle, or before the delay has elapsed since the last
\* transition, writes nothing to the bus, leaves brightness, fade state, step
\* counter and time of the last transition as they were, and returns true iff
\* a fade is in flight.
C15_IneffectiveTick ==
    [][(CallUpdateFade /\ TooEarly) =>
           /\ d'.bus = d.bus
           /\ d'.currentBrightness = d.currentBrightness
           /\ d'.fadeState = d.fadeState
           /\ d'.fadeStep = d.fadeStep
           /\ d'.lastUpdateTime = d.lastUpdateTime
           /\ d' = d
           /\ call'.ret = (d.fadeState # fadeStateIdle)]_vars

\* A poll during the fade-in of a fade whose delay is 1, made at the very time
\* of the last transition: it changed nothing and returned true.
C15_Witness ==
    /\ Ticked /\ d = before
    /\ d.fadeState = fadeStateIn /\ d.fadeDelay = 1 /\ d.fadeStep = 9
    /\ now = d.lastUpdateTime
    /\ call.ret

\* C16: StartFade during a fade-out or a fade-in is ignored: fade state, step
\* counter, delay and time of the last transition keep their values and
\* nothing is written to the bus; from Idle it moves the state to FadingOut.
C16_OneFadeInFlight ==
    (call.op = "StartFade") =>
        IF before.fadeState # fadeStateIdle
        THEN /\ d.fadeState = before.fadeState
             /\ d.fadeStep = before.fadeStep
             /\ d.fadeDelay = before.fadeDelay
             /\ d.lastUpdateTime = before.lastUpdateTime
             /\ d.bus = before.bus
             /\ d = before
        ELSE /\ d.fadeState = fadeStateOut
             /\ d.fadeStep = before.currentBrightness
             /\ d.fadeDelay = call.delay
             /\ d.lastUpdateTime = call.at
             /\ d.bus = before.bus

\* StartFade with delay 0 during the fade-in of a fade whose delay is 1.
C16_Witness ==
    /\ call.op = "StartFade" /\ call.delay = 0
    /\ before.fadeState = fadeStateIn /\ before.fadeStep = 7
    /\ d.fadeDelay = 1 /\ d.fadeStep = 7

\* The poll that ends the fade-in.
Completing ==
    Ticked /\ before.fadeState = fadeStateIn /\ d.fadeState = fadeStateIdle

\* C17: the value UpdateFade returns is "the fade state is not Idle", taken
\* after the call, which is what IsFading returns: true on every poll of a
\* fade in flight but the one that ends the fade-in, false on that one and on
\* every poll while Idle.
C17_ReturnsIsFading ==
    Ticked =>
        /\ call.ret = (d.fadeState # fadeStateIdle)
        /\ call.ret = IsFading(d)
        /\ (IsFading(before) /\ ~Completing) => call.ret
        /\ Completing => ~call.ret
        /\ ~IsFading(before) => ~call.ret

\* The poll that ends the fade-in: it wrote brightness 15 and returned false.
C17_Witness ==
    /\ Completing
    /\ before.fadeStep = 15
    /\ ~call.ret
    /\ d.currentBrightness = 15 /\ d.bus[Len(d.bus)].w = <<239>>

----------------------------------------------------------------------------
(* Transport errors and the blocking fade.                                 *)

\* A write of the last call was answered with an error.
TxFailed == \E k \in 1..Len(Sent) : Sent[k].err

\* C18: when a write of Configure, Display or SetBrightness fails, the failure
\* is handed to the caller of that method, and the write is not made again.
C18_ErrorPropagated ==
    (call.op \in {"Configure", "Display", "SetBrightness"} /\ TxFailed) =>
        /\ call.err
        /\ Len(Sent) = IF call.op = "Configure" THEN 3 ELSE 1

\* The last call is a blocking fade.
BlockingFaded == call.op = "DisplayFadeBlocking"

\* The places of the buffer flushes among the writes of the last call.
FlushPlaces == {k \in 1..Len(Sent) : IsFlush(Sent[k])}

\* The place of the flush of the last call.
FlushPlace == CHOOSE k \in FlushPlaces : TRUE

\* The single-byte command that sets brightness `level`.
BrightnessCommand(level) == <<224 + level>>

\* C19: DisplayFadeBlocking makes exactly one buffer flush, right after the
\* brightness-0 write that ends the fade-out and before the first brightness
\* write of the fade-in; it returns with stored brightness 15 and 0xEF as the
\* last brightness command on the bus.
C19_BlockingFadeOrder ==
    BlockingFaded =>
        /\ EarlierKept
        /\ Cardinality(FlushPlaces) = 1
        /\ FlushPlace > 1 /\ FlushPlace < Len(Sent)
        /\ Sent[FlushPlace - 1].w = BrightnessCommand(0)
        /\ \A k \in 1..(FlushPlace - 1) : Len(Sent[k].w) = 1
        /\ Sent[FlushPlace + 1].w = BrightnessCommand(0)
        /\ \A r \in Rows : Sent[FlushPlace].w[r + 2] = before.buffer[r]
        /\ d.currentBrightness = 15
        /\ Sent[Len(Sent)].w = BrightnessCommand(15)
        /\ d.buffer = before.buffer

\* A blocking fade entered at brightness 5 on the device showing "88" and
\* "99": the seventh write is the flush.
C19_Witness ==
    /\ BlockingFaded
    /\ before.currentBrightness = 5 /\ before.buffer = BothWritten.buffer
    /\ before.fadeState = fadeStateIdle
    /\ FlushPlace = 7 /\ Sent[6].w = <<224>> /\ Sent[8].w = <<224>>
    /\ d.currentBrightness = 15

\* C20 as stated: 16 brightness writes before the flush and 16 after it,
\* whatever the stored brightness at the call.
C20_SixteenEachWay ==
    BlockingFaded =>
        /\ FlushPlace - 1 = 16
        /\ Len(Sent) - FlushPlace = 16

\* C20, amended: entered at stored brightness b, DisplayFadeBlocking writes the
\* b + 1 levels b, b-1, ..., 0 before the flush (16 of them only when b = 15)
\* and 17 brightness commands after it: the levels 0, 1, ..., 15 and then 15
\* once more; it sleeps once after each write of the two loops.
C20_BlockingFadeSteps ==
    BlockingFaded =>
        LET b == before.currentBrightness
        IN  /\ FlushPlace = b + 2
            /\ \A k \in 1..(b + 1) : Sent[k].w = BrightnessCommand(b + 1 - k)
            /\ Len(Sent) = (b + 1) + 1 + 17
            /\ \A k \in 1..16 : Sent[FlushPlace + k].w = BrightnessCommand(k - 1)
            /\ Sent[FlushPlace + 17].w = BrightnessCommand(15)
            /\ now - call.at = ((b + 1) + 16) * call.delay
            /\ (b = 15 => FlushPlace - 1 = 16)

\* A blocking fade with delay 1 entered at brightness 3: four writes, the
\* flush, seventeen writes, and twenty units of sleep.
C20_Witness ==
    /\ BlockingFaded /\ call.delay = 1
    /\ before.currentBrightness = 3
    /\ Len(Sent) = 22 /\ FlushPlace = 5
    /\ now - call.at = 20

----------------------------------------------------------------------------
(* The illumination mode.                                                  *)

\* The places of the buffer flushes among all the writes the bus received.
AllFlushPlaces == {k \in 1..Len(d.bus) : IsFlush(d.bus[k])}

\* The place of the latest of them.
LatestFlush == CHOOSE k \in AllFlushPlaces : \A j \in AllFlushPlaces : j <= k

\* C21: after LightUpAllFadeBlocking has returned, the payload of the latest
\* buffer flush on the bus is sixteen 0xFF bytes: the chip, and not only the
\* buffer, has every segment lit.
C21_LitOnTheChip ==
    (call.op = "LightUpAllFadeBlocking") =>
        /\ AllFlushPlaces # {}
        /\ \A r \in Rows : d.bus[LatestFlush].w[r + 2] = 255

----------------------------------------------------------------------------
(* The digit method that takes a number.                                   *)

\* C26: SetDigitOnDisplay(display, position, num, dot) with num in 10..255
\* leaves the digit blank: none of the segments a-g is lit at that position.
C26_BlankAboveNine ==
    (/\ call.op = "SetDigitOnDisplayNum"
     /\ ValidDisplay(call.display) /\ ValidPosition(call.position)
     /\ call.num >= 10) =>
        \A seg \in 0..6 :
            Bit(d.buffer[call.display * 8 + seg], call.position) = 0

----------------------------------------------------------------------------
(* The frame of a digit write.                                             *)

\* The digit slots other than the one the last call wrote.
OtherSlots ==
    {s \in (0..(NumDisplays - 1)) \X (0..(MaxDigitsPerDisplay - 1)) :
        s # <<call.display, call.position>>}

\* Digits written to another slot: a blank, and "2" with its point.
OtherDigits == {<<0, FALSE>>, <<91, TRUE>>}

\* C25: a digit write at a valid (display, position) changes only bit
\* `position` of rows display*8 .. display*8+7: every other bit of those rows
\* and every bit of the other display's rows keeps its value; and writing
\* that digit and a digit in any other slot gives the same device in either
\* order.
C25_DigitWriteFrame ==
    DigitWritten =>
        /\ \A r \in Rows, p \in 0..7 :
               (r \notin Block(call.display) \/ p # call.position) =>
                   Bit(d.buffer[r], p) = Bit(before.buffer[r], p)
        /\ \A s \in OtherSlots, g \in OtherDigits :
               setPattern(d, s[1], s[2], g[1], g[2])
                   = Apply(setPattern(before, s[1], s[2], g[1], g[2]), call)

\* A blank written to the last digit of display B when every segment of both
\* displays was lit: the column went dark, the other seven digits of display
\* B and all of display A stayed lit.
C25_Witness ==
    /\ DigitWritten
    /\ call.op = "SetDigitOnDisplay" /\ call.char = SpaceRune /\ ~call.dot
    /\ call.display = 1 /\ call.position = 7
    /\ \A r \in Rows : before.buffer[r] = 255
    /\ \A r \in 0..7 : d.buffer[r] = 255
    /\ \A r \in 8..15 : d.buffer[r] = 127

----------------------------------------------------------------------------
(* The writes of a non-blocking fade.                                      *)

\* The writes the bus has received since the fade was started.
FadeWrites == SubSeq(d.bus, FadeStart.sent + 1, Len(d.bus))

\* The k-th write of a fade started at brightness b: levels b down to 0, the
\* flush of the buffer, levels 0 up to 15.
FadeWrite(b, k) ==
    IF k <= b + 1 THEN BrightnessCommand(b + 1 - k)
    ELSE IF k = b + 2 THEN <<0>> \o [j \in 1..BufferLen |-> d.buffer[j - 1]]
    ELSE BrightnessCommand(k - b - 3)

\* What n writes since the start say about the fade: the fade state, and the
\* step counter.
FadeStateAfter(b, n) ==
    IF n <= b THEN fadeStateOut
    ELSE IF n <= b + 17 THEN fadeStateIn
    ELSE fadeStateIdle
FadeStepAfter(b, n) == IF n <= b THEN b - n ELSE n - b - 2

\* The writes since the start are the first n of the fade's b + 18, never
\* the brightness 0 of the fade-out without the flush, and the fade state is
\* the one that goes with n.
C24_Sequence ==
    Started =>
        LET b == FadeStart.brightness
            n == Len(FadeWrites)
        IN  /\ n <= b + 18 /\ n # b + 1
            /\ \A k \in 1..n : FadeWrites[k].w = FadeWrite(b, k)
            /\ d.fadeState = FadeStateAfter(b, n)
            /\ d.fadeStep = FadeStepAfter(b, n)

\* A poll that finds a fade in flight and the delay elapsed, by however much,
\* makes one step: one brightness write, and the flush with it on the step
\* that writes brightness 0 of the fade-out.
C24_OneStep ==
    (CallUpdateFade /\ ~TooEarly) =>
        Len(d'.bus) - Len(d.bus)
            = IF d.fadeState = fadeStateOut /\ d.fadeStep = 0 THEN 2 ELSE 1

\* The fade state changes from Idle to Out, from Out to In and from In to
\* Idle only.
C24_Transitions ==
    \/ d'.fadeState = d.fadeState
    \/ <<d.fadeState, d'.fadeState>>
           \in {<<fadeStateIdle, fadeStateOut>>, <<fadeStateOut, fadeStateIn>>,
                <<fadeStateIn, fadeStateIdle>>}

\* C24: a non-blocking fade started at brightness b with nothing interleaved
\* writes, in order, brightness b, b-1, ..., 0, one per effective poll however
\* late the poll, then the 17-byte flush in the poll that wrote brightness 0,
\* then brightness 0, 1, ..., 15; the fade state is Out until b+1 polls have
\* taken effect, In for the next 16 and Idle after b+17, and changes in no
\* other way.
C24_FadeWriteSequence ==
    /\ [] C24_Sequence
    /\ [][C24_OneStep /\ C24_Transitions]_vars

\* A fade without delay started at time 0 at brightness 2 and polled at time
\* 1 only: every poll was late, and the fade has ended after 3 + 16
\* brightness writes and the flush.
C24_Witness ==
    /\ Started /\ FadeStart.delay = 0 /\ FadeStart.at = 0
    /\ FadeStart.brightness = 2
    /\ now = 1 /\ d.lastUpdateTime = 1
    /\ d.fadeState = fadeStateIdle
    /\ Len(FadeWrites) = 20
    /\ IsFlush(FadeWrites[4])
    /\ FadeWrites[3].w = <<224>> /\ FadeWrites[5].w = <<224>>
    /\ FadeWrites[20].w = <<239>>

----------------------------------------------------------------------------
(* A fade with other calls between its polls.                              *)

\* C22: after any sequence of Configure, SetBrightness with any argument,
\* blocking fades, StartFade and UpdateFade the stored brightness is within
\* 0..15, and every one-byte command on the bus that is not one of Configure's
\* two (oscillator on, display on) is a brightness command 0xE0..0xEF.
C22_BrightnessInRange ==
    /\ d.currentBrightness \in 0..15
    /\ \A k \in 1..Len(d.bus) :
           (/\ Len(d.bus[k].w) = 1
            /\ d.bus[k].w[1] \notin
                   {ht16k33TurnOnOscillator, ht16k33TurnOnDisplay}) =>
               d.bus[k].w[1] \in 224..239

\* SetBrightness(255) in the middle of a fade: 15 was stored and 0xEF sent.
C22_Witness ==
    /\ call.op = "SetBrightness" /\ call.brightness = 255
    /\ before.fadeState = fadeStateIn /\ before.currentBrightness = 4
    /\ d.currentBrightness = 15
    /\ Sent = <<[addr |-> d.Address, w |-> <<239>>, err |-> FALSE]>>

\* C23 as stated: in every state between operations, Idle after a completed
\* fade included, the step counter is within 0..15.
C23_StepWithinFifteen == d.fadeStep \in 0..15

\* C23, amended: between operations the step counter is within 0..15 while a
\* fade is in flight; in Idle it is 0 before the first fade and 16 after a
\* fade has completed.
C23_StepRange ==
    /\ IsFading(d) => d.fadeStep \in 0..15
    /\ ~IsFading(d) => d.fadeStep = IF Started THEN 16 ELSE 0
    /\ Completing => d.fadeStep = 16

\* The poll that ends the fade-in found the step counter at 15 and left it
\* at 16 with the fade state Idle.
C23_Witness ==
    /\ Completing
    /\ before.fadeStep = 15
    /\ d.fadeStep = 16 /\ d.fadeState = fadeStateIdle

\* The rows of a buffer as Display sends them.
FlushOf(buffer) == <<0>> \o [j \in 1..BufferLen |-> buffer[j - 1]]

\* C27: the flush of a non-blocking fade carries the buffer as it is at the
\* poll that takes the step counter below 0, with every change made to it
\* since StartFade; the polls of the fade-in send no flush, so a change made
\* to the buffer after the handoff is not sent by them.
C27_FlushAtHandoff ==
    /\ Handoff =>
           /\ Len(Sent) = 2
           /\ Sent[2].w = FlushOf(before.buffer)
           /\ Sent[2].w = FlushOf(d.buffer)
    /\ (Ticked /\ before.fadeState = fadeStateIn) =>
           /\ \A k \in 1..Len(Sent) : ~IsFlush(Sent[k])
           /\ \A k \in 1..Len(Sent) : Len(Sent[k].w) = 1

\* Every segment was lit in the buffer after StartFade on a device that had
\* shown other content: the flush of the handoff carried sixteen 0xFF.
C27_Witness ==
    /\ Handoff
    /\ Len(calls) = 4
    /\ calls[1].op = "StartFade" /\ calls[3].op = "LightUpAll"
    /\ IsFlush(d.bus[1]) /\ d.bus[1].w # Sent[2].w
    /\ \A j \in 2..17 : Sent[2].w[j] = 255

\* The calls made between the polls of a fade.
MixedCalls ==
    {"SetBrightness", "Display", "LightUpAll", "Configure",
     "DisplayFadeBlocking"}

\* The effective polls a fade still needs: the steps left of the fade-out and
\* the 16 of the fade-in, or those left of the fade-in.
Remaining(dev) ==
    IF dev.fadeState = fadeStateOut THEN dev.fadeStep + 17
    ELSE IF dev.fadeState = fadeStateIn THEN 16 - dev.fadeStep
    ELSE 0

\* C28: a call made between the polls of a fade in flight leaves fade state,
\* step counter and delay as they were; the next effective poll writes the
\* brightness the step counter gives, whatever level was set in between; and
\* the number of effective polls the fade needs to end, b + 17 at its start,
\* goes down by one with each effective poll and with nothing else, the fade
\* ending in Idle with stored brightness 15.
C28_FadeUndisturbed ==
    /\ (call.op \in MixedCalls /\ IsFading(before)) =>
           /\ d.fadeState = before.fadeState
           /\ d.fadeStep = before.fadeStep
           /\ d.fadeDelay = before.fadeDelay
           /\ Remaining(d) = Remaining(before)
    /\ Stepped =>
           /\ Sent[1].w = BrightnessCommand(before.fadeStep)
           /\ d.currentBrightness = before.fadeStep
           /\ Remaining(d) = Remaining(before) - 1
    /\ (call.op = "StartFade" /\ ~IsFading(before)) =>
           Remaining(d) = before.currentBrightness + 17
    /\ IsFading(d) <=> Remaining(d) > 0
    /\ Completing => d.currentBrightness = 15

\* SetBrightness(255) was called during the fade-out, when the step counter
\* was 1: the next poll wrote brightness 1 over the 15.
C28_Witness ==
    /\ Stepped
    /\ Len(calls) >= 2
    /\ calls[Len(calls) - 1].op = "SetBrightness"
    /\ calls[Len(calls) - 1].brightness = 255
    /\ before.fadeState = fadeStateOut /\ before.fadeStep = 1
    /\ before.currentBrightness = 15
    /\ d.currentBrightness = 1 /\ Sent[1].w = <<225>>

====
